---- MODULE Spec2Model ----
(***************************************************************************)
(* A model of tools/generate_branding.py: the per-flavor branding run      *)
(* (main and the ten steps it calls), the text substitutions it applies to *)
(* the native files, and the read-modify-write of the shared pubspec.yaml. *)
(*                                                                         *)
(* Texts that the program edits with regular expressions are sequences of  *)
(* one-character strings, and the substitutions are computed character by  *)
(* character.  Paths are tuples of path components.  A python dict is a    *)
(* function from its keys; a YAML scalar is a record tagged by its type.   *)
(***************************************************************************)
EXTENDS Integers, Sequences, FiniteSets, TLC

VARIABLES
    pc,              \* position of the run in main(): the step to execute next
    exitCode,        \* -1 while running, else the process exit status
    log,             \* the error-level diagnostics logged so far (a set of tags)
    executed,        \* the steps of main() that have completed, in order
    args,            \* parsed command line: [flavor, android_res_path]
    configFile,      \* assets/configs/<flavor>/config.json
    images,          \* assets/configs/<flavor>/icon.png and splash.png
    locals,          \* main()'s main_color, app_name, package_name
    pubspec,         \* pubspec.yaml: [assets, icons, splash, other]
    staged,          \* PROJECT_ROOT/icon.png, PROJECT_ROOT/splash.png: name -> origin
    res,             \* android resource roots: root -> set of entries
    buildArtifacts,  \* android/app/build, ios/build, ios/Pods, ios/Podfile.lock
    iosAssets,       \* ios/Runner/Assets.xcassets: catalog -> [exists, files]
    genCfg,          \* the two generator configuration files of the flavor
    androidManifest, \* AndroidManifest.xml: [exists, text]
    androidGradle,   \* build.gradle.kts: [exists, text]
    infoPlist,       \* Info.plist: [exists, text]
    rpc,             \* concurrent runs: run -> position in its manifest steps
    mem,             \* concurrent runs: run -> the YAML data it holds in memory
    hist             \* history: the inputs and what the steps did (per specification)

vars == <<pc, exitCode, log, executed, args, configFile, images, locals, pubspec,
          staged, res, buildArtifacts, iosAssets, genCfg, androidManifest,
          androidGradle, infoPlist, rpc, mem, hist>>

(***************************************************************************)
(* Bounds of the model.                                                    *)
(***************************************************************************)
MaxColorLen == 4
MaxAssets == 3
MaxExtra == 2
MaxAttrs == 2
MaxEntries == 2
MaxApplications == 2
MaxLines == 1

--------------------------------------------------------------------------
(* Characters and texts *)

Range(s) == {s[i] : i \in 1..Len(s)}

RECURSIVE Concat(_)
Concat(ss) == IF ss = <<>> THEN <<>> ELSE Head(ss) \o Concat(Tail(ss))

\* The suffix of text that starts at position i (1-based), text[i:].
From(text, i) == SubSeq(text, i, Len(text))

\* text.startswith(lit, i-1)
StartsWith(text, i, lit) ==
    /\ i + Len(lit) - 1 <= Len(text)
    /\ SubSeq(text, i, i + Len(lit) - 1) = lit

\* s in text (substring test)
Contains(text, s) == \E i \in 1..(Len(text) + 1) : StartsWith(text, i, s)

\* The characters python's \s matches among those the model's texts use.
Whitespace == {" ", "\t", "\n", "\r", "\f"}

Min(S) == CHOOSE x \in S : \A y \in S : x <= y

\* Greedy run of the characters of cls from position i (i <= Len(text) + 1): the
\* first position at or after i that holds another character, Len(text) + 1 when
\* the run reaches the end.
SkipWhile(text, i, cls) ==
    Min({k \in i..(Len(text) + 1) : k = Len(text) + 1 \/ text[k] \notin cls})

\* Greedy run of the characters other than stop, likewise.
SkipUntil(text, i, stop) ==
    Min({k \in i..(Len(text) + 1) : k = Len(text) + 1 \/ text[k] = stop})

Quote == "\""
KeyOpen == <<"<", "k", "e", "y", ">">>
KeyClose == <<"<", "/", "k", "e", "y", ">">>
StringOpen == <<"<", "s", "t", "r", "i", "n", "g", ">">>
StringClose == <<"<", "/", "s", "t", "r", "i", "n", "g", ">">>
CFBundleIdentifier == <<"C", "F", "B", "u", "n", "d", "l", "e", "I", "d", "e", "n", "t", "i", "f", "i", "e", "r">>
CFBundleDisplayName == <<"C", "F", "B", "u", "n", "d", "l", "e", "D", "i", "s", "p", "l", "a", "y", "N", "a", "m", "e">>
CFBundleName == <<"C", "F", "B", "u", "n", "d", "l", "e", "N", "a", "m", "e">>
PackageAttr == <<"p", "a", "c", "k", "a", "g", "e">>
LabelAttr == <<"a", "n", "d", "r", "o", "i", "d", ":", "l", "a", "b", "e", "l">>
NameAttr == <<"a", "n", "d", "r", "o", "i", "d", ":", "n", "a", "m", "e">>
SubpackageAttr == <<"s", "u", "b", "p", "a", "c", "k", "a", "g", "e">>
ApplicationId == <<"a", "p", "p", "l", "i", "c", "a", "t", "i", "o", "n", "I", "d">>
NamespaceId == <<"n", "a", "m", "e", "s", "p", "a", "c", "e">>
PackagePrefix == <<"c", "o", "m", ".", "g", "i", "o", "l", "a", "b", "s", ".">>
NLTAB == <<"\n", "\t">>

--------------------------------------------------------------------------
(* update_android_config: the three substitutions *)

\* re.match(name + '="[^"]+"', text, pos=i-1): the position after the match, 0 if none.
MatchAttr(text, i, name) ==
    IF StartsWith(text, i, name \o <<"=", Quote>>)
    THEN LET j == i + Len(name) + 2
             k == SkipUntil(text, j, Quote)
         IN  IF k > j /\ k <= Len(text) THEN k + 1 ELSE 0
    ELSE 0

\* re.sub(name + '="[^"]+"', name + '="' + value + '"', text), scanning from i:
\* the leftmost match at or after i is replaced and the scan goes on behind it.
RECURSIVE SubAttr(_, _, _, _)
SubAttr(text, i, name, value) ==
    LET starts == {j \in i..Len(text) : MatchAttr(text, j, name) > 0}
    IN  IF starts = {} THEN From(text, i)
        ELSE LET j == Min(starts)
             IN  SubSeq(text, i, j - 1)
                 \o name \o <<"=", Quote>> \o value \o <<Quote>>
                 \o SubAttr(text, MatchAttr(text, j, name), name, value)

\* re.match(r'applicationId\s*=\s*"[^"]+"', text, pos=i-1)
MatchApplicationId(text, i) ==
    IF StartsWith(text, i, ApplicationId)
    THEN LET a == SkipWhile(text, i + Len(ApplicationId), Whitespace)
         IN  IF a <= Len(text) /\ text[a] = "="
             THEN LET b == SkipWhile(text, a + 1, Whitespace)
                  IN  IF b <= Len(text) /\ text[b] = Quote
                      THEN LET k == SkipUntil(text, b + 1, Quote)
                           IN  IF k > b + 1 /\ k <= Len(text) THEN k + 1 ELSE 0
                      ELSE 0
             ELSE 0
    ELSE 0

\* re.sub(r'applicationId\s*=\s*"[^"]+"', 'applicationId = "' + value + '"', text)
RECURSIVE SubApplicationId(_, _, _)
SubApplicationId(text, i, value) ==
    LET starts == {j \in i..Len(text) : MatchApplicationId(text, j) > 0}
    IN  IF starts = {} THEN From(text, i)
        ELSE LET j == Min(starts)
             IN  SubSeq(text, i, j - 1)
                 \o ApplicationId \o <<" ", "=", " ", Quote>> \o value \o <<Quote>>
                 \o SubApplicationId(text, MatchApplicationId(text, j), value)

ManifestAfterPatch(text, package_name, app_name) ==
    SubAttr(SubAttr(text, 1, PackageAttr, package_name), 1, LabelAttr, app_name)

GradleAfterPatch(text, package_name) == SubApplicationId(text, 1, package_name)

--------------------------------------------------------------------------
(* update_ios_config: the property-list substitutions *)

\* An entry's pattern, '<key>KEY</key>\s*<string>[^<]+</string>', matched at
\* position i: the position after the match, 0 if none.
MatchPlistEntry(text, i, key) ==
    IF StartsWith(text, i, KeyOpen \o key \o KeyClose)
    THEN LET a == SkipWhile(text, i + Len(key) + Len(KeyOpen) + Len(KeyClose), Whitespace)
         IN  IF StartsWith(text, a, StringOpen)
             THEN LET j == a + Len(StringOpen)
                      k == SkipUntil(text, j, "<")
                  IN  IF k > j /\ StartsWith(text, k, StringClose)
                      THEN k + Len(StringClose) ELSE 0
             ELSE 0
    ELSE 0

\* re.sub of the entry pattern of key: each match is replaced by repl, preceded
\* by the matched text itself when keep (the template's group reference \1).
RECURSIVE SubPlistEntry(_, _, _, _, _)
SubPlistEntry(text, i, key, keep, repl) ==
    LET starts == {j \in i..Len(text) : MatchPlistEntry(text, j, key) > 0}
    IN  IF starts = {} THEN From(text, i)
        ELSE LET j == Min(starts)
                 e == MatchPlistEntry(text, j, key)
             IN  SubSeq(text, i, j - 1)
                 \o (IF keep THEN SubSeq(text, j, e - 1) ELSE <<>>) \o repl
                 \o SubPlistEntry(text, e, key, keep, repl)

\* '<key>KEY</key>\n\t<string>VALUE</string>'
PlistPair(key, value) ==
    KeyOpen \o key \o KeyClose \o NLTAB \o StringOpen \o value \o StringClose

PlistAfterPatch(content, package_name, app_name) ==
    LET c1 == SubPlistEntry(content, 1, CFBundleIdentifier, FALSE,
                            PlistPair(CFBundleIdentifier, package_name))
    IN  IF Contains(c1, KeyOpen \o CFBundleDisplayName \o KeyClose)
        THEN SubPlistEntry(c1, 1, CFBundleDisplayName, FALSE,
                           PlistPair(CFBundleDisplayName, app_name))
        ELSE SubPlistEntry(c1, 1, CFBundleIdentifier, TRUE,
                           NLTAB \o PlistPair(CFBundleDisplayName, app_name))

\* A file that is absent is skipped, and not created.
update_ios_config(plist, package_name, app_name) ==
    IF plist.exists
    THEN [plist EXCEPT !.text = PlistAfterPatch(plist.text, package_name, app_name)]
    ELSE plist

update_android_manifest(manifest, package_name, app_name) ==
    IF manifest.exists
    THEN [manifest EXCEPT !.text = ManifestAfterPatch(manifest.text, package_name, app_name)]
    ELSE manifest

update_android_gradle(gradle, package_name) ==
    IF gradle.exists
    THEN [gradle EXCEPT !.text = GradleAfterPatch(gradle.text, package_name)]
    ELSE gradle

--------------------------------------------------------------------------
(* main(): the values derived from the command line and config.json *)

LowerLetters == <<"a", "b", "c", "d", "e", "f", "g", "h", "i", "j", "k", "l", "m", "n", "o", "p", "q", "r", "s", "t", "u", "v", "w", "x", "y", "z">>
UpperLetters == <<"A", "B", "C", "D", "E", "F", "G", "H", "I", "J", "K", "L", "M", "N", "O", "P", "Q", "R", "S", "T", "U", "V", "W", "X", "Y", "Z">>

\* c.upper() and c.lower() of one character
Upper(c) == IF \E i \in 1..26 : LowerLetters[i] = c
            THEN UpperLetters[CHOOSE i \in 1..26 : LowerLetters[i] = c] ELSE c
Lower(c) == IF \E i \in 1..26 : UpperLetters[i] = c
            THEN LowerLetters[CHOOSE i \in 1..26 : UpperLetters[i] = c] ELSE c

\* str.capitalize(): the first character upper-cased, the rest lower-cased
Capitalize(s) == [i \in 1..Len(s) |-> IF i = 1 THEN Upper(s[i]) ELSE Lower(s[i])]

\* s.lstrip(c): s without its leading run of the character c
RECURSIVE LStrip(_, _)
LStrip(s, c) == IF s # <<>> /\ Head(s) = c THEN LStrip(Tail(s), c) ELSE s

\* dict.get(key, default) on an optional field [present, value]
Get(field, default) == IF field.present THEN field.value ELSE default

\* The characters of a flavor name (a flavor is named by a string in paths).
FlavorChars(flavor) ==
    CASE flavor = "demo" -> <<"d", "e", "m", "o">>
      [] flavor = "qa"   -> <<"q", "a">>

\* The main color with '#' put in front of the configured value as it is
resolve_main_color_unstripped(config) == <<"#">> \o Get(config.mainColor, <<>>)

\* main_color = '#' + config.get('mainColor', '').lstrip('#')
resolve_main_color(config) == <<"#">> \o LStrip(Get(config.mainColor, <<>>), "#")

\* app_name = config.get('appName', flavor.capitalize())
resolve_app_name(config, flavor) == Get(config.appName, Capitalize(FlavorChars(flavor)))

\* package_name = f"com.giolabs.{flavor}"
resolve_package_name(flavor) == PackagePrefix \o FlavorChars(flavor)

--------------------------------------------------------------------------
(* validate_image_dimensions *)

ICON_DIMENSIONS ==
    [android |-> [adaptive_icon |-> 1024, play_store |-> 512, notification |-> 96],
     ios     |-> [app_store |-> 1024, notification |-> 60, settings |-> 29]]

SPLASH_DIMENSIONS ==
    [android |-> [portrait |-> <<1242, 2436>>, landscape |-> <<2436, 1242>>],
     ios     |-> [portrait |-> <<1242, 2688>>, landscape |-> <<2688, 1242>>]]

\* validate_image_dimensions without its squareness check (lines 77-79 dropped)
validate_image_dimensions_any_shape(img, required) ==
    IF ~img.readable THEN FALSE
    ELSE IF required.is_tuple
    THEN ~(img.width < required.dims[1] \/ img.height < required.dims[2])
    ELSE ~(img.width < required.dims \/ img.height < required.dims)

\* required is [is_tuple |-> TRUE, dims |-> <<w, h>>] or [is_tuple |-> FALSE, dims |-> n].
\* An image that cannot be opened raises, which is caught: the result is False.
validate_image_dimensions(img, required) ==
    IF ~img.readable THEN FALSE
    ELSE IF required.is_tuple
    THEN ~(img.width < required.dims[1] \/ img.height < required.dims[2])
    ELSE IF img.width < required.dims \/ img.height < required.dims THEN FALSE
    ELSE IF img.width # img.height THEN FALSE
    ELSE TRUE

IconRequired == [is_tuple |-> FALSE, dims |-> ICON_DIMENSIONS.android.adaptive_icon]
SplashRequired == [is_tuple |-> TRUE, dims |-> SPLASH_DIMENSIONS.android.portrait]

\* validate_and_copy_images: the diagnostic of its first failing check, "ok" if none.
validate_images(imgs) ==
    IF ~imgs.icon.exists THEN "icon_missing"
    ELSE IF ~validate_image_dimensions(imgs.icon, IconRequired) THEN "icon_invalid"
    ELSE IF ~imgs.splash.exists THEN "splash_missing"
    ELSE IF ~validate_image_dimensions(imgs.splash, SplashRequired) THEN "splash_invalid"
    ELSE "ok"

--------------------------------------------------------------------------
(* pubspec.yaml as YAML data *)

YBool(b) == [kind |-> "bool", b |-> b]
YInt(n) == [kind |-> "int", n |-> n]
YStr(s) == [kind |-> "str", s |-> s]
YChars(c) == [kind |-> "str", chars |-> c]
YPath(p) == [kind |-> "str", path |-> p]
YMap(m) == [kind |-> "map", m |-> m]

EmptyDict == [k \in {} |-> YBool(FALSE)]

\* d.update(u): every key of u set to u's value, the other keys of d kept
DictUpdate(d, u) ==
    [k \in DOMAIN d \cup DOMAIN u |-> IF k \in DOMAIN u THEN u[k] ELSE d[k]]

\* The two loops without their membership test: every asset is appended
AppendAll(assets, new) == assets \o new

\* for asset in new: if asset not in assets: assets.append(asset)
RECURSIVE AppendMissing(_, _)
AppendMissing(assets, new) ==
    IF new = <<>> THEN assets
    ELSE AppendMissing(IF Head(new) \in Range(assets) THEN assets
                       ELSE Append(assets, Head(new)),
                       Tail(new))

\* f'assets/configs/{flavor_dir.name}/<file>' as path components
FlavorAsset(flavor, file) == <<"assets", "configs", flavor, file>>

flavor_assets(flavor) ==
    << FlavorAsset(flavor, "icon.png"),
       FlavorAsset(flavor, "splash.png"),
       FlavorAsset(flavor, "config.json") >>

\* The data generate_pubspec_assets dumps, from the data it loaded.
generate_pubspec_assets(data, flavor, config) ==
    [data EXCEPT !.assets =
        AppendMissing(AppendMissing(data.assets, flavor_assets(flavor)),
                      Get(config.assets, <<>>))]

IconsUpdate(main_color) ==
    [android                  |-> YBool(TRUE),
     ios                      |-> YBool(TRUE),
     image_path_ios           |-> YStr("icon.png"),
     adaptive_icon_background |-> YChars(main_color),
     adaptive_icon_foreground |-> YStr("icon.png"),
     remove_alpha_ios         |-> YBool(TRUE),
     min_sdk_android          |-> YInt(21),
     web                      |-> YBool(FALSE),
     background_color_ios     |-> YChars(main_color)]

SplashUpdate(main_color) ==
    [color      |-> YChars(main_color),
     image      |-> YStr("splash.png"),
     android_12 |-> YMap([image |-> YStr("splash.png"),
                         icon_background_color |-> YChars(main_color)]),
     ios        |-> YBool(TRUE),
     android    |-> YBool(TRUE),
     web        |-> YBool(FALSE)]

\* d.update(u) made recursive: a dict under a key of both is merged, not replaced
RECURSIVE DictMerge(_, _)
DictMerge(d, u) ==
    [k \in DOMAIN d \cup DOMAIN u |->
        IF k \notin DOMAIN u THEN d[k]
        ELSE IF k \in DOMAIN d /\ d[k].kind = "map" /\ u[k].kind = "map"
             THEN YMap(DictMerge(d[k].m, u[k].m))
             ELSE u[k]]

\* update_pubspec with the two blocks merged recursively
update_pubspec_deep(data, main_color, has_splash) ==
    [data EXCEPT !.icons = DictMerge(data.icons, IconsUpdate(main_color)),
                 !.splash = DictMerge(data.splash, SplashUpdate(main_color))]

\* The data update_pubspec dumps, from the data it loaded (has_splash is not read).
update_pubspec(data, main_color, has_splash) ==
    [data EXCEPT !.icons = DictUpdate(data.icons, IconsUpdate(main_color)),
                 !.splash = DictUpdate(data.splash, SplashUpdate(main_color))]

\* A dump that appends to the asset list the file holds, instead of rewriting it
dump_pubspec_appending(file, data) ==
    [data EXCEPT !.assets = AppendMissing(file.assets, data.assets)]

\* yaml.dump(data, f) on PUBSPEC.open('w'): the file becomes the dumped data.
dump_pubspec(file, data) == data

\* The two per-flavor generator configuration files generate_and_run writes.
icons_cfg(flavor, main_color) ==
    [flutter_launcher_icons |-> YMap(
        [android                  |-> YBool(TRUE),
         ios                      |-> YBool(TRUE),
         image_path               |-> YPath(FlavorAsset(flavor, "icon.png")),
         min_sdk_android          |-> YInt(21),
         adaptive_icon_background |-> YChars(main_color),
         adaptive_icon_foreground |-> YPath(FlavorAsset(flavor, "icon.png")),
         background_color_ios     |-> YChars(main_color),
         remove_alpha_ios         |-> YBool(TRUE)])]

splash_cfg(flavor, main_color) ==
    [flutter_native_splash |-> YMap(
        [color      |-> YChars(main_color),
         image      |-> YPath(FlavorAsset(flavor, "splash.png")),
         android_12 |-> YMap([image |-> YPath(FlavorAsset(flavor, "splash.png")),
                             icon_background_color |-> YChars(main_color)]),
         ios        |-> YBool(TRUE),
         android    |-> YBool(TRUE),
         web        |-> YBool(FALSE)])]

--------------------------------------------------------------------------
(* The file system steps *)

Restrict(f, S) == [k \in S |-> f[k]]
Without(f, k) == Restrict(f, DOMAIN f \ {k})
With(f, k, v) == [x \in DOMAIN f \cup {k} |-> IF x = k THEN v ELSE f[x]]

\* The permutations of a finite set, as sequences
Perms(S) == {q \in [1..Cardinality(S) -> S] : \A i, j \in 1..Cardinality(S) : q[i] = q[j] => i = j}

\* The four paths clean_previous_app_data removes when present.
AppData == {"android/app/build", "ios/build", "ios/Pods", "ios/Podfile.lock"}

clean_previous_app_data(artifacts) == artifacts \ AppData

\* Entries of a resource root.  MipmapGlob are the directories glob('mipmap-*')
\* yields; NameHasMipmap are the directories whose name contains 'mipmap'.
MipmapGlob == {"mipmap-hdpi", "mipmap-xhdpi"}
NameHasMipmap == MipmapGlob \cup {"legacy_mipmap"}

Catalogs == {"AppIcon.appiconset", "LaunchImage.imageset"}

\* Every child directory of the root with 'mipmap' in its name is removed.
clean_previous_assets_res(r, android_res_path) ==
    [r EXCEPT ![android_res_path] =
        Restrict(r[android_res_path], DOMAIN r[android_res_path] \ NameHasMipmap)]

\* Both catalogs are removed and created again, empty.
clean_previous_assets_ios(ios) == [c \in Catalogs |-> {}]

config_files ==
    << "values/colors.xml",
       "drawable/launch_background.xml",
       "drawable-v21/launch_background.xml",
       "values/styles.xml",
       "values-night/styles.xml",
       "values-v31/styles.xml",
       "values-night-v31/styles.xml" >>

\* One turn of the mipmap loop for directory d of main_res: the destination, when
\* it exists, is removed; then shutil.move raises when the source is gone.
MoveMipmap(st, d, android_res_path) ==
    IF st.raised THEN st
    ELSE LET r1 == IF d \in DOMAIN st.res[android_res_path]
                   THEN [st.res EXCEPT ![android_res_path] = Without(@, d)]
                   ELSE st.res
         IN  IF d \notin DOMAIN r1["main"]
             THEN [res |-> r1, raised |-> TRUE]
             ELSE LET content == r1["main"][d]
                      r2 == [r1 EXCEPT !["main"] = Without(@, d)]
                  IN  [res |-> [r2 EXCEPT ![android_res_path] = With(@, d, content)],
                       raised |-> FALSE]

RECURSIVE MoveMipmaps(_, _, _)
MoveMipmaps(st, order, android_res_path) ==
    IF order = <<>> THEN st
    ELSE MoveMipmaps(MoveMipmap(st, Head(order), android_res_path),
                     Tail(order), android_res_path)

\* One turn of the config-file loop: os.rename onto the same path is a no-op.
MoveConfigFile(r, f, android_res_path) ==
    IF f \in DOMAIN r["main"]
    THEN LET content == r["main"][f]
             r1 == [r EXCEPT !["main"] = Without(@, f)]
         IN  [r1 EXCEPT ![android_res_path] = With(@, f, content)]
    ELSE r

RECURSIVE MoveConfigFiles(_, _, _)
MoveConfigFiles(r, files, android_res_path) ==
    IF files = <<>> THEN r
    ELSE MoveConfigFiles(MoveConfigFile(r, Head(files), android_res_path),
                         Tail(files), android_res_path)

\* move_assets_to_flavor, with the order in which glob yields the directories:
\* [res, raised], raised when shutil.move raised (nothing catches it).
move_assets_to_flavor(r, android_res_path, order) ==
    LET st == MoveMipmaps([res |-> r, raised |-> FALSE], order, android_res_path)
    IN  IF st.raised THEN st
        ELSE [res |-> MoveConfigFiles(st.res, config_files, android_res_path),
              raised |-> FALSE]

PngFiles == {"icon.png", "launch.png"}

\* One catalog's check in verify_ios_assets (a catalog always exists after the reset).
CatalogComplete(files) == files \cap PngFiles # {} /\ "Contents.json" \in files

\* verify_ios_assets: the error diagnostics it logs
verify_ios_assets(ios) ==
    (IF CatalogComplete(ios["AppIcon.appiconset"]) THEN {} ELSE {"AppIcon_incomplete"})
    \cup
    (IF CatalogComplete(ios["LaunchImage.imageset"]) THEN {} ELSE {"LaunchImage_incomplete"})

StagedNames == {"icon.png", "splash.png"}

\* The temporary-file loop that ends main(): both staged files are unlinked.
cleanup_staged(st) == Restrict(st, DOMAIN st \ StagedNames)

--------------------------------------------------------------------------
(* Input files, rendered as the texts the program reads *)

\* ' name="value"'
RenderAttr(a) == <<" ">> \o a.name \o <<"=", Quote>> \o a.value \o <<Quote>>

\* AndroidManifest.xml reduced to one element with the given attributes
RenderManifest(attrs) ==
    <<"<", "m">> \o Concat([i \in 1..Len(attrs) |-> RenderAttr(attrs[i])]) \o <<">">>

\* build.gradle.kts reduced to assignments 'id<sep>"value"', one per line
RenderGradle(lines) ==
    Concat([i \in 1..Len(lines) |->
              lines[i].id \o lines[i].sep \o <<Quote>> \o lines[i].value \o <<Quote, "\n">>])

\* Info.plist reduced to its key/string pairs: the key, the whitespace between
\* the key and the string, the string, and the text up to the next pair
RenderPlist(entries) ==
    Concat([i \in 1..Len(entries) |->
              KeyOpen \o entries[i].key \o KeyClose \o entries[i].ws
              \o StringOpen \o entries[i].value \o StringClose \o entries[i].sep])

Absent == [exists |-> FALSE, text |-> <<>>]
File(text) == [exists |-> TRUE, text |-> text]

None == [present |-> FALSE, value |-> <<>>]
Some(v) == [present |-> TRUE, value |-> v]

--------------------------------------------------------------------------
(* The run: main() and its steps *)

Steps ==
    << "clean_previous_app_data", "clean_previous_assets", "validate_and_copy_images",
       "generate_pubspec_assets", "update_pubspec", "generate_and_run",
       "move_assets_to_flavor", "update_android_config", "update_ios_config",
       "verify_ios_assets", "cleanup" >>

StepIndex(p) == CHOOSE i \in 1..Len(Steps) : Steps[i] = p
IsStep(p) == \E i \in 1..Len(Steps) : Steps[i] = p

\* The step after p; after the last one the process ends.
After(p) == IF StepIndex(p) < Len(Steps) THEN Steps[StepIndex(p) + 1] ELSE "exited"

inputVars == <<args, configFile, images>>
nativeVars == <<androidManifest, androidGradle, infoPlist>>
raceVars == <<rpc, mem>>

\* The step at pc completes and main() goes on to the next one.
Completes ==
    /\ pc' = After(pc)
    /\ executed' = Append(executed, pc)
    /\ exitCode' = IF After(pc) = "exited" THEN 0 ELSE exitCode

\* sys.exit(1) after logging tag, or an exception nothing catches.
Exits(tag) ==
    /\ pc' = "exited"
    /\ exitCode' = 1
    /\ log' = log \cup {tag}
    /\ executed' = executed
    /\ hist' = [hist EXCEPT !.haltedAt = pc]

\* main(), lines 371-388: the arguments, the config check, the derived values
Main ==
    /\ pc = "main"
    /\ IF ~configFile.exists
       THEN /\ Exits("config_missing")
            /\ UNCHANGED locals
       ELSE /\ locals' = [main_color   |-> resolve_main_color(configFile),
                          app_name     |-> resolve_app_name(configFile, args.flavor),
                          package_name |-> resolve_package_name(args.flavor)]
            /\ pc' = Steps[1]
            /\ UNCHANGED <<exitCode, log, executed, hist>>
    /\ UNCHANGED <<inputVars, pubspec, staged, res, buildArtifacts, iosAssets, genCfg,
                   nativeVars, raceVars>>

CleanPreviousAppData ==
    /\ pc = "clean_previous_app_data"
    /\ buildArtifacts' = clean_previous_app_data(buildArtifacts)
    /\ Completes
    /\ UNCHANGED <<log, inputVars, locals, pubspec, staged, res, iosAssets, genCfg,
                   nativeVars, raceVars, hist>>

CleanPreviousAssets ==
    /\ pc = "clean_previous_assets"
    /\ res' = clean_previous_assets_res(res, args.android_res_path)
    /\ iosAssets' = clean_previous_assets_ios(iosAssets)
    /\ Completes
    /\ UNCHANGED <<log, inputVars, locals, pubspec, staged, buildArtifacts, genCfg,
                   nativeVars, raceVars, hist>>

ValidateAndCopyImages ==
    /\ pc = "validate_and_copy_images"
    /\ LET verdict == validate_images(images)
       IN  IF verdict # "ok"
           THEN /\ Exits(verdict)
                /\ UNCHANGED staged
           ELSE /\ staged' = With(With(staged, "icon.png", args.flavor),
                                  "splash.png", args.flavor)
                /\ Completes
                /\ UNCHANGED <<log, hist>>
    /\ UNCHANGED <<inputVars, locals, pubspec, res, buildArtifacts, iosAssets, genCfg,
                   nativeVars, raceVars>>

GeneratePubspecAssets ==
    /\ pc = "generate_pubspec_assets"
    /\ pubspec' = dump_pubspec(pubspec, generate_pubspec_assets(pubspec, args.flavor, configFile))
    /\ Completes
    /\ UNCHANGED <<log, inputVars, locals, staged, res, buildArtifacts, iosAssets, genCfg,
                   nativeVars, raceVars, hist>>

UpdatePubspec ==
    /\ pc = "update_pubspec"
    /\ pubspec' = dump_pubspec(pubspec,
                      update_pubspec(pubspec, locals.main_color, "splash.png" \in DOMAIN staged))
    /\ Completes
    /\ UNCHANGED <<log, inputVars, locals, staged, res, buildArtifacts, iosAssets, genCfg,
                   nativeVars, raceVars, hist>>

\* What a generator command that succeeds may leave behind: its file formats
\* are external, so any of these outcomes is possible.
IconOutcomes ==
    [mipmaps : SUBSET MipmapGlob,
     catalog : {{}, {"icon.png"}, {"icon.png", "Contents.json"}}]
SplashOutcomes ==
    [files   : {{}, {"values/colors.xml", "drawable/launch_background.xml", "values-v31/styles.xml"}},
     catalog : {{}, {"launch.png", "Contents.json"}}]

Generated(r, names) ==
    [r EXCEPT !["main"] = [k \in DOMAIN @ \cup names |-> IF k \in names THEN "generated" ELSE @[k]]]

\* generate_and_run: both files are written, then the two commands run in turn;
\* a command that fails ends the process.
GenerateAndRun ==
    /\ pc = "generate_and_run"
    /\ genCfg' = [icons  |-> icons_cfg(args.flavor, locals.main_color),
                  splash |-> splash_cfg(args.flavor, locals.main_color)]
    /\ \/ /\ Exits("flutter_launcher_icons_failed")
          /\ UNCHANGED <<res, iosAssets>>
       \/ \E io \in IconOutcomes :
            LET r1 == Generated(res, io.mipmaps)
                i1 == [iosAssets EXCEPT !["AppIcon.appiconset"] = io.catalog]
            IN  \/ /\ res' = r1
                   /\ iosAssets' = i1
                   /\ pc' = "exited"
                   /\ exitCode' = 1
                   /\ log' = log \cup {"flutter_native_splash_failed"}
                   /\ executed' = executed
                   /\ hist' = [hist EXCEPT !.haltedAt = pc, !.produced = io.mipmaps]
                \/ \E so \in SplashOutcomes :
                     /\ res' = Generated(r1, so.files)
                     /\ iosAssets' = [i1 EXCEPT !["LaunchImage.imageset"] = so.catalog]
                     /\ hist' = [hist EXCEPT !.produced = io.mipmaps,
                                             !.producedFiles = so.files,
                                             !.generated = TRUE]
                     /\ Completes
                     /\ UNCHANGED log
    /\ UNCHANGED <<inputVars, locals, pubspec, staged, buildArtifacts, nativeVars, raceVars>>

MoveAssetsToFlavor ==
    /\ pc = "move_assets_to_flavor"
    /\ \E order \in Perms(DOMAIN res["main"] \cap MipmapGlob) :
         LET st == move_assets_to_flavor(res, args.android_res_path, order)
         IN  /\ res' = st.res
             /\ IF st.raised
                THEN Exits("FileNotFoundError")
                ELSE Completes /\ UNCHANGED <<log, hist>>
    /\ UNCHANGED <<inputVars, locals, pubspec, staged, buildArtifacts, iosAssets, genCfg,
                   nativeVars, raceVars>>

UpdateAndroidConfig ==
    /\ pc = "update_android_config"
    /\ androidManifest' = update_android_manifest(androidManifest, locals.package_name,
                                                  locals.app_name)
    /\ androidGradle' = update_android_gradle(androidGradle, locals.package_name)
    /\ Completes
    /\ UNCHANGED <<log, inputVars, locals, pubspec, staged, res, buildArtifacts, iosAssets,
                   genCfg, infoPlist, raceVars, hist>>

UpdateIosConfig ==
    /\ pc = "update_ios_config"
    /\ infoPlist' = update_ios_config(infoPlist, locals.package_name, locals.app_name)
    /\ Completes
    /\ UNCHANGED <<log, inputVars, locals, pubspec, staged, res, buildArtifacts, iosAssets,
                   genCfg, androidManifest, androidGradle, raceVars, hist>>

\* verify_ios_assets made fatal: a failed check ends the process like the
\* failures of validation and generation do.
VerifyIosAssetsFatal ==
    /\ pc = "verify_ios_assets"
    /\ IF verify_ios_assets(iosAssets) # {}
       THEN /\ pc' = "exited"
            /\ exitCode' = 1
            /\ log' = log \cup verify_ios_assets(iosAssets)
            /\ executed' = executed
       ELSE /\ Completes
            /\ UNCHANGED log
    /\ UNCHANGED <<inputVars, locals, pubspec, staged, res, buildArtifacts, iosAssets,
                   genCfg, nativeVars, raceVars, hist>>

\* A failed check is logged and nothing else: main() goes on.
VerifyIosAssets ==
    /\ pc = "verify_ios_assets"
    /\ log' = log \cup verify_ios_assets(iosAssets)
    /\ Completes
    /\ UNCHANGED <<inputVars, locals, pubspec, staged, res, buildArtifacts, iosAssets,
                   genCfg, nativeVars, raceVars, hist>>

\* main(), lines 402-409: the staged files are removed and the process ends with 0.
Cleanup ==
    /\ pc = "cleanup"
    /\ staged' = cleanup_staged(staged)
    /\ Completes
    /\ UNCHANGED <<log, inputVars, locals, pubspec, res, buildArtifacts, iosAssets, genCfg,
                   nativeVars, raceVars, hist>>

Next ==
    \/ Main
    \/ CleanPreviousAppData
    \/ CleanPreviousAssets
    \/ ValidateAndCopyImages
    \/ GeneratePubspecAssets
    \/ UpdatePubspec
    \/ GenerateAndRun
    \/ MoveAssetsToFlavor
    \/ UpdateAndroidConfig
    \/ UpdateIosConfig
    \/ VerifyIosAssets
    \/ Cleanup

--------------------------------------------------------------------------
(* Initial states of a run *)

NoDict == EmptyDict

MissingImage == [exists |-> FALSE, readable |-> FALSE, width |-> 0, height |-> 0]
CorruptImage == [exists |-> TRUE, readable |-> FALSE, width |-> 0, height |-> 0]
Image(w, h) == [exists |-> TRUE, readable |-> TRUE, width |-> w, height |-> h]

\* Sizes on both sides of each minimum
Around(n) == {n - 1, n, n + 1}
IconImages ==
    {MissingImage, CorruptImage}
    \cup {Image(w, h) : w \in Around(ICON_DIMENSIONS.android.adaptive_icon),
                        h \in Around(ICON_DIMENSIONS.android.adaptive_icon)}
SplashImages ==
    {MissingImage, CorruptImage}
    \cup {Image(w, h) : w \in {SPLASH_DIMENSIONS.android.portrait[1] - 1,
                               SPLASH_DIMENSIONS.android.portrait[1]},
                        h \in {SPLASH_DIMENSIONS.android.portrait[2] - 1,
                               SPLASH_DIMENSIONS.android.portrait[2]}}

MissingConfig == [exists |-> FALSE, mainColor |-> None, appName |-> None, assets |-> None]
Config(color, name, assets) ==
    [exists |-> TRUE, mainColor |-> color, appName |-> name, assets |-> assets]

ExtraAsset == <<"assets", "images", "logo.png">>

RunConfigs ==
    { MissingConfig,
      Config(Some(<<"1", "A">>), Some(<<"A", "p", "p">>), None),
      Config(Some(<<"#", "#", "1", "A">>), None, Some(<<ExtraAsset, ExtraAsset>>)),
      Config(None, Some(<<>>), Some(<<FlavorAsset("demo", "icon.png")>>)) }

\* pubspec.yaml before any run, and as a run for another flavor left it (with a
\* key of its own in each block and in the android_12 sub-block).
FreshPubspec == [assets |-> <<>>, icons |-> NoDict, splash |-> NoDict, other |-> "name: app"]
UsedPubspec ==
    [assets |-> flavor_assets("qa") \o <<ExtraAsset>>,
     icons  |-> DictUpdate(IconsUpdate(<<"#", "0">>), [image_path |-> YStr("old.png")]),
     splash |-> DictUpdate(SplashUpdate(<<"#", "0">>),
                  [fullscreen |-> YBool(TRUE),
                   android_12 |-> YMap([image |-> YStr("old.png"),
                                        branding |-> YStr("brand.png")])]),
     other  |-> "name: app"]

CleanRes == [main   |-> [k \in {"values/strings.xml"} |-> "project"],
             flavor |-> NoDict]
DirtyRes ==
    [main   |-> [k \in {"values/strings.xml", "mipmap-hdpi", "legacy_mipmap",
                        "values/colors.xml"}
                   |-> IF k = "values/strings.xml" THEN "project" ELSE "stale"],
     flavor |-> [k \in {"mipmap-hdpi", "legacy_mipmap", "values/colors.xml"} |-> "stale"]]

CleanWorkspace ==
    [staged |-> NoDict, res |-> CleanRes, buildArtifacts |-> {},
     iosAssets |-> [c \in Catalogs |-> {}]]
DirtyWorkspace ==
    [staged |-> [k \in StagedNames |-> "stale"], res |-> DirtyRes,
     buildArtifacts |-> AppData \cup {"android/app/src"},
     iosAssets |-> [c \in Catalogs |-> {"icon.png", "Contents.json"}]]

TypicalManifest ==
    RenderManifest(<< [name |-> PackageAttr, value |-> <<"o", "l", "d">>],
                      [name |-> LabelAttr, value |-> <<"O", "l", "d">>] >>)
TypicalGradle ==
    RenderGradle(<< [id |-> ApplicationId, sep |-> <<" ", "=", " ">>, value |-> <<"o", "l", "d">>] >>)
TypicalPlist ==
    RenderPlist(<< [key |-> CFBundleIdentifier, ws |-> NLTAB, value |-> <<"o", "l", "d">>,
                    sep |-> <<"\n">>] >>)

NoRace == [r \in {} |-> "none"]

InitIdle ==
    /\ rpc = NoRace
    /\ mem = NoRace

Init ==
    /\ pc = "main"
    /\ exitCode = -1
    /\ log = {}
    /\ executed = <<>>
    /\ args \in [flavor : {"demo"}, android_res_path : {"main", "flavor"}]
    /\ configFile \in RunConfigs
    /\ images \in [icon : IconImages, splash : SplashImages]
    /\ locals = [main_color |-> <<>>, app_name |-> <<>>, package_name |-> <<>>]
    /\ pubspec \in {FreshPubspec, UsedPubspec}
    /\ \E w \in {CleanWorkspace, DirtyWorkspace} :
         /\ staged = w.staged
         /\ res = w.res
         /\ buildArtifacts = w.buildArtifacts
         /\ iosAssets = w.iosAssets
    /\ genCfg = NoDict
    /\ \E present \in BOOLEAN :
         /\ androidManifest = IF present THEN File(TypicalManifest) ELSE Absent
         /\ androidGradle = IF present THEN File(TypicalGradle) ELSE Absent
         /\ infoPlist = IF present THEN File(TypicalPlist) ELSE Absent
    /\ InitIdle
    /\ hist = [pubspec0 |-> pubspec, staged0 |-> staged, res0 |-> res,
               native0 |-> <<androidManifest, androidGradle, infoPlist>>,
               produced |-> {}, producedFiles |-> {}, generated |-> FALSE,
               haltedAt |-> "none"]

Spec == Init /\ [][Next]_vars

--------------------------------------------------------------------------
(* Properties of the run *)

Exited == pc = "exited"
VerifyErrors == {"AppIcon_incomplete", "LaunchImage_incomplete"}
StepsBefore(p) == SubSeq(Steps, 1, StepIndex(p) - 1)

\* C1: once the config was valid, the images passed and both generator commands
\* succeeded, the run ends with status 0, and when it has ended every mipmap-*
\* directory the generator produced is under the flavor's resource root and, when
\* that root is not the default one, no longer under the default root; the same
\* for each listed configuration resource file.
C1_OwnershipTransferred ==
    (Exited /\ hist.generated) =>
        /\ exitCode = 0
        /\ \A d \in hist.produced \cup hist.producedFiles :
             /\ d \in DOMAIN res[args.android_res_path]
             /\ args.android_res_path # "main" => d \notin DOMAIN res["main"]
        /\ \A i \in 1..Len(config_files) :
             args.android_res_path # "main" => config_files[i] \notin DOMAIN res["main"]

\* C2: with an icon narrower or shorter than 1024 px or not square, or a splash
\* narrower than 1242 px or shorter than 2436 px, or either file missing, the
\* run never gets past validation: pubspec.yaml keeps its content, neither
\* manifest step is executed, the staged copies are not written, and the
\* process ends with a non-zero status.
C2_BadImages ==
    \/ ~images.icon.exists
    \/ images.icon.width < 1024
    \/ images.icon.height < 1024
    \/ images.icon.width # images.icon.height
    \/ ~images.splash.exists
    \/ images.splash.width < 1242
    \/ images.splash.height < 2436

C2_InvalidImagesLeaveManifest ==
    C2_BadImages =>
        /\ pubspec = hist.pubspec0
        /\ staged = hist.staged0
        /\ "generate_pubspec_assets" \notin Range(executed)
        /\ "update_pubspec" \notin Range(executed)
        /\ genCfg = NoDict
        /\ Exited => exitCode # 0
        /\ pc \in {"main", "clean_previous_app_data", "clean_previous_assets",
                   "validate_and_copy_images", "exited"}

C2_Witness ==
    /\ Exited
    /\ hist.haltedAt = "validate_and_copy_images"
    /\ images.icon.exists /\ images.icon.readable
    /\ images.icon.width >= 1024 /\ images.icon.height >= 1024
    /\ images.icon.width # images.icon.height
    /\ pubspec = UsedPubspec

\* C3: the run is a strict linear sequence of the eleven steps whose only
\* branches are the fatal exits of validation and of generation.  While running,
\* exactly the steps before the current one have completed; a run that ended
\* either completed all of them with status 0, or left validation or generation
\* with a non-zero status, and then no later step took effect and nothing was
\* rolled back: after a failed generation the native files are untouched,
\* nothing was relocated or verified, the staged images are still there, and
\* the manifest carries this run's asset-list and config-block edits.
C3_AfterFailedGeneration ==
    /\ executed = StepsBefore("generate_and_run")
    /\ <<androidManifest, androidGradle, infoPlist>> = hist.native0
    /\ log \cap VerifyErrors = {}
    /\ \A k \in DOMAIN res["flavor"] : res["flavor"][k] # "generated"
    /\ \A n \in StagedNames : n \in DOMAIN staged /\ staged[n] = args.flavor
    /\ Range(flavor_assets(args.flavor)) \subseteq Range(pubspec.assets)
    /\ pubspec.icons = DictUpdate(hist.pubspec0.icons, IconsUpdate(locals.main_color))
    /\ pubspec.splash = DictUpdate(hist.pubspec0.splash, SplashUpdate(locals.main_color))

C3_StrictLinearSequence ==
    /\ IsStep(pc) => executed = StepsBefore(pc)
    /\ (Exited /\ hist.haltedAt # "main") =>
         \/ /\ exitCode = 0
            /\ hist.haltedAt = "none"
            /\ executed = Steps
         \/ /\ exitCode # 0
            /\ hist.haltedAt = "validate_and_copy_images"
            /\ executed = StepsBefore("validate_and_copy_images")
            /\ pubspec = hist.pubspec0
         \/ /\ exitCode # 0
            /\ hist.haltedAt = "generate_and_run"
            /\ C3_AfterFailedGeneration

\* C5: a failed verification of the icon set or of the launch-image set is only
\* logged: the temporary-file cleanup is the next and last step, after it
\* neither staged image exists, and the process ends with status 0.
C5_VerificationIsAdvisory ==
    log \cap VerifyErrors # {} =>
        \/ pc = "cleanup" /\ exitCode = -1
        \/ /\ Exited
           /\ exitCode = 0
           /\ executed = Steps
           /\ DOMAIN staged \cap StagedNames = {}

C5_Witness ==
    /\ Exited
    /\ exitCode = 0
    /\ VerifyErrors \subseteq log
    /\ hist.staged0 # NoDict
    /\ DOMAIN staged = {}

--------------------------------------------------------------------------
(* The run up to and including generation, over many colors and manifests *)

RECURSIVE SeqsUpTo(_, _)
SeqsUpTo(S, n) ==
    IF n = 0 THEN {<<>>}
    ELSE LET shorter == SeqsUpTo(S, n - 1)
         IN  shorter \cup {Append(q, x) : q \in shorter, x \in S}

SampleColor == <<"1", "A", "2", "B", "3", "C">>
ColorValues == SeqsUpTo({"#", "1", "A"}, MaxColorLen) \cup {SampleColor}

StaleIcons == DictUpdate(IconsUpdate(<<"#", "0">>), [image_path |-> YStr("old.png")])
StaleSplash ==
    DictUpdate(SplashUpdate(<<"#", "0">>),
               [fullscreen |-> YBool(TRUE),
                android_12 |-> YMap([image |-> YStr("old.png"),
                                     branding |-> YStr("brand.png")])])
PartialSplash == [color |-> YStr("red"), android_12 |-> YStr("none"), branding |-> YStr("b.png")]

ValidImages == [icon   |-> Image(ICON_DIMENSIONS.android.adaptive_icon,
                                 ICON_DIMENSIONS.android.adaptive_icon),
                splash |-> Image(SPLASH_DIMENSIONS.android.portrait[1],
                                 SPLASH_DIMENSIONS.android.portrait[2])]

InitConfig ==
    /\ pc = "main"
    /\ exitCode = -1
    /\ log = {}
    /\ executed = <<>>
    /\ args = [flavor |-> "demo", android_res_path |-> "flavor"]
    /\ \E color \in {None} \cup {Some(c) : c \in ColorValues} :
         configFile = Config(color, None, None)
    /\ images = ValidImages
    /\ locals = [main_color |-> <<>>, app_name |-> <<>>, package_name |-> <<>>]
    /\ \E icons \in {NoDict, StaleIcons}, splash \in {NoDict, StaleSplash, PartialSplash} :
         pubspec = [assets |-> <<ExtraAsset>>, icons |-> icons, splash |-> splash,
                    other |-> "name: app"]
    /\ staged = CleanWorkspace.staged
    /\ res = CleanWorkspace.res
    /\ buildArtifacts = CleanWorkspace.buildArtifacts
    /\ iosAssets = CleanWorkspace.iosAssets
    /\ genCfg = NoDict
    /\ androidManifest = Absent
    /\ androidGradle = Absent
    /\ infoPlist = Absent
    /\ InitIdle
    /\ hist = [pubspec0 |-> pubspec, staged0 |-> staged, res0 |-> res,
               native0 |-> <<androidManifest, androidGradle, infoPlist>>,
               produced |-> {}, producedFiles |-> {}, generated |-> FALSE,
               haltedAt |-> "none"]

NextConfig ==
    \/ Main
    \/ CleanPreviousAppData
    \/ CleanPreviousAssets
    \/ ValidateAndCopyImages
    \/ GeneratePubspecAssets
    \/ UpdatePubspec
    \/ GenerateAndRun

SpecConfig == InitConfig /\ [][NextConfig]_vars

\* C6: whatever the config's mainColor (absent, or with any number of leading
\* '#'), the resolved main color is one '#' followed by the value without its
\* leading '#' characters, and it is this value that update_pubspec stores in
\* the manifest and generate_and_run in the generator configs; "1A2B3C" gives
\* "#1A2B3C".
C6_Resolved(v, c) ==
    /\ Len(c) >= 1 /\ c[1] = "#"
    /\ Len(c) >= 2 => c[2] # "#"
    /\ \E k \in 0..Len(v) :
         /\ \A i \in 1..k : v[i] = "#"
         /\ Tail(c) = SubSeq(v, k + 1, Len(v))

C6_MainColorNormalized ==
    LET v == Get(configFile.mainColor, <<>>)
    IN  /\ pc # "main" => C6_Resolved(v, locals.main_color)
        /\ "update_pubspec" \in Range(executed) =>
             /\ C6_Resolved(v, pubspec.icons.adaptive_icon_background.chars)
             /\ C6_Resolved(v, pubspec.icons.background_color_ios.chars)
             /\ C6_Resolved(v, pubspec.splash.color.chars)
             /\ C6_Resolved(v, pubspec.splash.android_12.m.icon_background_color.chars)
        /\ genCfg # NoDict =>
             /\ C6_Resolved(v, genCfg.icons.flutter_launcher_icons.m.adaptive_icon_background.chars)
             /\ C6_Resolved(v, genCfg.splash.flutter_native_splash.m.color.chars)
        /\ (pc # "main" /\ v = SampleColor) => locals.main_color = <<"#">> \o SampleColor

C6_Witness ==
    /\ configFile.mainColor = Some(<<"#", "#", "1", "A">>)
    /\ genCfg # NoDict
    /\ pubspec.splash.color = YChars(<<"#", "1", "A">>)
    /\ genCfg.icons.flutter_launcher_icons.m.background_color_ios = YChars(<<"#", "1", "A">>)

\* C9: update_pubspec sets every key it writes in the icon block and in the
\* splash block to this run's value whatever it held; android_12 is replaced as
\* a whole; the keys of the two blocks it does not write, the asset list and
\* the other sections keep their values.
C9_Step ==
    LET c == locals.main_color
    IN  /\ \A k \in DOMAIN IconsUpdate(c) : pubspec'.icons[k] = IconsUpdate(c)[k]
        /\ \A k \in DOMAIN SplashUpdate(c) : pubspec'.splash[k] = SplashUpdate(c)[k]
        /\ DOMAIN pubspec'.splash.android_12.m = {"image", "icon_background_color"}
        /\ DOMAIN pubspec'.icons = DOMAIN pubspec.icons \cup DOMAIN IconsUpdate(c)
        /\ DOMAIN pubspec'.splash = DOMAIN pubspec.splash \cup DOMAIN SplashUpdate(c)
        /\ \A k \in DOMAIN pubspec.icons \ DOMAIN IconsUpdate(c) :
             pubspec'.icons[k] = pubspec.icons[k]
        /\ \A k \in DOMAIN pubspec.splash \ DOMAIN SplashUpdate(c) :
             pubspec'.splash[k] = pubspec.splash[k]
        /\ pubspec'.assets = pubspec.assets
        /\ pubspec'.other = pubspec.other

C9_LastWriteWins == [][pc = "update_pubspec" => C9_Step]_vars

C9_Witness ==
    /\ "update_pubspec" \in Range(executed)
    /\ hist.pubspec0.splash = StaleSplash
    /\ hist.pubspec0.icons = StaleIcons
    /\ "branding" \notin DOMAIN pubspec.splash.android_12.m
    /\ pubspec.splash.fullscreen = YBool(TRUE)
    /\ pubspec.icons.image_path = YStr("old.png")
    /\ pubspec.icons.adaptive_icon_background # hist.pubspec0.icons.adaptive_icon_background

--------------------------------------------------------------------------
(* generate_pubspec_assets applied again and again to one manifest *)

\* Variables a specification of a single function does not use
InitUnused ==
    /\ pc = "idle"
    /\ exitCode = -1
    /\ log = {}
    /\ executed = <<>>
    /\ images = ValidImages
    /\ staged = NoDict
    /\ res = CleanRes
    /\ buildArtifacts = {}
    /\ iosAssets = [c \in Catalogs |-> {}]
    /\ genCfg = NoDict
    /\ InitIdle

runVars == <<pc, exitCode, log, executed, images, staged, res, buildArtifacts, iosAssets,
             genCfg, rpc, mem>>

MergePaths ==
    {FlavorAsset("demo", "icon.png"), FlavorAsset("demo", "config.json"),
     FlavorAsset("qa", "icon.png"), ExtraAsset}
ConfigPaths == {FlavorAsset("demo", "icon.png"), ExtraAsset, <<"assets", "fonts", "a.ttf">>}

InitMerge ==
    /\ InitUnused
    /\ args = [flavor |-> "demo", android_res_path |-> "flavor"]
    /\ \E extra \in {None} \cup {Some(q) : q \in SeqsUpTo(ConfigPaths, MaxExtra)} :
         configFile = Config(None, None, extra)
    /\ locals = [main_color |-> <<"#">>, app_name |-> <<>>, package_name |-> <<>>]
    /\ \E assets \in SeqsUpTo(MergePaths, MaxAssets) :
         pubspec = [assets |-> assets, icons |-> NoDict, splash |-> NoDict,
                    other |-> "name: app"]
    /\ androidManifest = Absent
    /\ androidGradle = Absent
    /\ infoPlist = Absent
    /\ hist = [assets0 |-> pubspec.assets, after |-> <<>>]

\* One more run's asset merge on the manifest the previous one left
ApplyAssetMerge ==
    /\ Len(hist.after) < MaxApplications
    /\ pubspec' = dump_pubspec(pubspec, generate_pubspec_assets(pubspec, args.flavor, configFile))
    /\ hist' = [hist EXCEPT !.after = Append(@, pubspec'.assets)]
    /\ UNCHANGED <<runVars, inputVars, locals, nativeVars>>

NextMerge == ApplyAssetMerge

SpecMerge == InitMerge /\ [][NextMerge]_vars

Count(p, q) == Cardinality({i \in 1..Len(q) : q[i] = p})

\* The entries of q that were listed in q0, in q's order
RECURSIVE Kept(_, _)
Kept(q, q0) ==
    IF q = <<>> THEN <<>>
    ELSE (IF Head(q) \in Range(q0) THEN <<Head(q)>> ELSE <<>>) \o Kept(Tail(q), q0)

\* C4: the asset merge applied twice leaves the asset list that one application
\* leaves; no path that was listed before the merge is listed more often after
\* it, and the entries listed before keep their relative order; the three
\* canonical paths and the config's own paths are listed afterwards.
C4_MergeIdempotent ==
    Len(hist.after) >= 1 =>
        /\ \A i \in 1..Len(hist.after) : hist.after[i] = hist.after[1]
        /\ \A p \in Range(hist.assets0) : Count(p, pubspec.assets) = Count(p, hist.assets0)
        /\ Kept(pubspec.assets, hist.assets0) = hist.assets0
        /\ Range(flavor_assets(args.flavor)) \cup Range(Get(configFile.assets, <<>>))
             \subseteq Range(pubspec.assets)
        /\ \A p \in Range(pubspec.assets) \ Range(hist.assets0) : Count(p, pubspec.assets) = 1

C4_Witness ==
    /\ Len(hist.after) = 2
    /\ hist.assets0 = <<FlavorAsset("demo", "icon.png"), ExtraAsset, FlavorAsset("demo", "icon.png")>>
    /\ configFile.assets = Some(<<ExtraAsset, ExtraAsset>>)
    /\ Len(pubspec.assets) = 5

--------------------------------------------------------------------------
(* update_ios_config applied to many property lists *)

PlistKeys == {CFBundleIdentifier, CFBundleDisplayName, CFBundleName}
PlistEntries == [key : PlistKeys, ws : {<<>>, NLTAB}, value : {<<>>, <<"x">>}, sep : {<<"\n">>}]

AppNames == {None, Some(<<"A">>), Some(<<>>)}

\* main()'s derived values for the given flavor and config
LocalsOf(flavor, config) ==
    [main_color   |-> resolve_main_color(config),
     app_name     |-> resolve_app_name(config, flavor),
     package_name |-> resolve_package_name(flavor)]

InitIos ==
    /\ InitUnused
    /\ args = [flavor |-> "demo", android_res_path |-> "flavor"]
    /\ \E name \in AppNames : configFile = Config(None, name, None)
    /\ locals = LocalsOf(args.flavor, configFile)
    /\ pubspec = FreshPubspec
    /\ androidManifest = Absent
    /\ androidGradle = Absent
    /\ \E entries \in SeqsUpTo(PlistEntries, MaxEntries) :
         \/ infoPlist = File(RenderPlist(entries))
              /\ hist = [entries |-> entries, file0 |-> infoPlist, after |-> <<>>]
         \/ entries = <<>> /\ infoPlist = Absent
              /\ hist = [entries |-> entries, file0 |-> infoPlist, after |-> <<>>]

\* One more run's property-list patch on the file the previous one left
ApplyIosConfig ==
    /\ Len(hist.after) < MaxApplications
    /\ infoPlist' = update_ios_config(infoPlist, locals.package_name, locals.app_name)
    /\ hist' = [hist EXCEPT !.after = Append(@, infoPlist')]
    /\ UNCHANGED <<runVars, inputVars, locals, pubspec, androidManifest, androidGradle>>

NextIos == ApplyIosConfig

SpecIos == InitIos /\ [][NextIos]_vars

HasKey(entries, key) == \E i \in 1..Len(entries) : entries[i].key = key
DistinctKeys(entries) ==
    \A i, j \in 1..Len(entries) : entries[i].key = entries[j].key => i = j

\* The pairs the patch is to leave: the bundle identifier set to the package, the
\* display name set to the app name, or inserted right after the bundle identifier.
ExpectedEntries(entries, package_name, app_name) ==
    LET shown == HasKey(entries, CFBundleDisplayName)
        One(e) ==
            IF e.key = CFBundleIdentifier
            THEN IF shown
                 THEN << [e EXCEPT !.ws = NLTAB, !.value = package_name] >>
                 ELSE << [e EXCEPT !.ws = NLTAB, !.value = package_name, !.sep = NLTAB],
                         [key |-> CFBundleDisplayName, ws |-> NLTAB, value |-> app_name,
                          sep |-> e.sep] >>
            ELSE IF e.key = CFBundleDisplayName
            THEN << [e EXCEPT !.ws = NLTAB, !.value = app_name] >>
            ELSE << e >>
    IN  Concat([i \in 1..Len(entries) |-> One(entries[i])])

\* C7: after update_ios_config on an existing property list with a bundle-
\* identifier entry (one with a value, and no key twice), the bundle identifier
\* is the package identifier and there
\* is exactly one display-name entry, holding the app name: replaced when the
\* key existed (with any value, an empty one included), else inserted right
\* after the bundle-identifier entry; a second application changes nothing.
C7_PlistPatched ==
    (/\ Len(hist.after) >= 1
     /\ hist.file0.exists
     /\ \E i \in 1..Len(hist.entries) :
          hist.entries[i].key = CFBundleIdentifier /\ hist.entries[i].value # <<>>
     /\ DistinctKeys(hist.entries)) =>
        /\ infoPlist.exists
        /\ infoPlist.text =
             RenderPlist(ExpectedEntries(hist.entries, locals.package_name, locals.app_name))
        /\ \A i \in 1..Len(hist.after) : hist.after[i] = hist.after[1]

--------------------------------------------------------------------------
(* update_android_config applied to many manifests and build scripts *)

ApplicationIdSuffix == ApplicationId \o <<"S", "u", "f", "f", "i", "x">>

ManifestAttrs == [name : {PackageAttr, LabelAttr, SubpackageAttr, NameAttr},
                  value : {<<>>, <<"x">>}]
GradleLines == [id : {ApplicationId, ApplicationIdSuffix, NamespaceId},
                sep : {<<"=">>, <<" ", "=", " ">>},
                value : {<<>>, <<"x">>}]

InitAndroid ==
    /\ InitUnused
    /\ args = [flavor |-> "demo", android_res_path |-> "flavor"]
    /\ configFile = Config(None, Some(<<"A">>), None)
    /\ locals = LocalsOf(args.flavor, configFile)
    /\ pubspec = FreshPubspec
    /\ infoPlist = Absent
    /\ \E attrs \in SeqsUpTo(ManifestAttrs, MaxAttrs), lines \in SeqsUpTo(GradleLines, MaxLines),
          m \in BOOLEAN, g \in BOOLEAN :
         /\ ~m => attrs = <<>>
         /\ ~g => lines = <<>>
         /\ androidManifest = IF m THEN File(RenderManifest(attrs)) ELSE Absent
         /\ androidGradle = IF g THEN File(RenderGradle(lines)) ELSE Absent
         /\ hist = [attrs |-> attrs, lines |-> lines,
                    manifest0 |-> androidManifest, gradle0 |-> androidGradle,
                    after |-> <<>>]

ApplyAndroidConfig ==
    /\ Len(hist.after) < MaxApplications
    /\ androidManifest' = update_android_manifest(androidManifest, locals.package_name,
                                                  locals.app_name)
    /\ androidGradle' = update_android_gradle(androidGradle, locals.package_name)
    /\ hist' = [hist EXCEPT !.after = Append(@, <<androidManifest', androidGradle'>>)]
    /\ UNCHANGED <<runVars, inputVars, locals, pubspec, infoPlist>>

NextAndroid == ApplyAndroidConfig

SpecAndroid == InitAndroid /\ [][NextAndroid]_vars

ExpectedAttrs(attrs, package_name, app_name) ==
    [i \in 1..Len(attrs) |->
        IF attrs[i].value = <<>> THEN attrs[i]
        ELSE IF attrs[i].name = PackageAttr THEN [attrs[i] EXCEPT !.value = package_name]
        ELSE IF attrs[i].name = LabelAttr THEN [attrs[i] EXCEPT !.value = app_name]
        ELSE attrs[i]]

ExpectedLines(lines, package_name) ==
    [i \in 1..Len(lines) |->
        IF lines[i].id = ApplicationId /\ lines[i].value # <<>>
        THEN [lines[i] EXCEPT !.sep = <<" ", "=", " ">>, !.value = package_name]
        ELSE lines[i]]

\* C8: update_android_config sets the value of every package attribute to the
\* package identifier and of every android:label attribute to the display name
\* in the manifest, and the applicationId assignment in the build script, and
\* changes nothing else: every other attribute keeps its text, one whose name
\* ends in 'package' included, and so does every attribute whose value is
\* empty; an absent file is not created, and the other one is still patched.
C8_OnlyIdentityRewritten ==
    Len(hist.after) >= 1 =>
        /\ androidManifest.exists = hist.manifest0.exists
        /\ androidGradle.exists = hist.gradle0.exists
        /\ androidManifest.exists =>
             androidManifest.text =
               RenderManifest(ExpectedAttrs(hist.attrs, locals.package_name, locals.app_name))
        /\ androidGradle.exists =>
             androidGradle.text = RenderGradle(ExpectedLines(hist.lines, locals.package_name))

--------------------------------------------------------------------------
(* Two runs, for two flavors, on the same pubspec.yaml *)

Runs == {"demo", "qa"}
Other(r) == CHOOSE o \in Runs : o # r

RaceConfig(r) == Config(Some(FlavorChars(r)), None, None)

InitRace ==
    /\ pc = "idle"
    /\ exitCode = -1
    /\ log = {}
    /\ executed = <<>>
    /\ args = [flavor |-> "demo", android_res_path |-> "flavor"]
    /\ configFile = RaceConfig("demo")
    /\ images = ValidImages
    /\ locals = LocalsOf("demo", configFile)
    /\ pubspec \in {FreshPubspec, UsedPubspec,
                    [FreshPubspec EXCEPT !.assets = <<ExtraAsset>>]}
    /\ staged = NoDict
    /\ res = CleanRes
    /\ buildArtifacts = {}
    /\ iosAssets = [c \in Catalogs |-> {}]
    /\ genCfg = NoDict
    /\ androidManifest = Absent
    /\ androidGradle = Absent
    /\ infoPlist = Absent
    /\ rpc = [r \in Runs |-> "generate_pubspec_assets"]
    /\ mem = [r \in Runs |-> FreshPubspec]
    /\ hist = [pubspec0 |-> pubspec, lastWriter |-> "none", overlapped |-> FALSE]

staticVars == <<pc, exitCode, log, executed, args, configFile, images, locals, staged, res,
                buildArtifacts, iosAssets, genCfg, androidManifest, androidGradle, infoPlist>>

\* A run is inside its manifest steps from its first load to its last dump.
Inside(r) == rpc[r] \notin {"generate_pubspec_assets", "done"}

\* generate_pubspec_assets, lines 154-177: the file is loaded and the list grown in memory
LoadForAssets(r) ==
    /\ rpc[r] = "generate_pubspec_assets"
    /\ mem' = [mem EXCEPT ![r] = generate_pubspec_assets(pubspec, r, RaceConfig(r))]
    /\ rpc' = [rpc EXCEPT ![r] = "dump_assets"]
    /\ hist' = [hist EXCEPT !.overlapped = @ \/ Inside(Other(r))]
    /\ UNCHANGED <<pubspec, staticVars>>

\* generate_pubspec_assets, lines 179-180: the file is rewritten from memory
DumpAssets(r) ==
    /\ rpc[r] = "dump_assets"
    /\ pubspec' = dump_pubspec(pubspec, mem[r])
    /\ rpc' = [rpc EXCEPT ![r] = "update_pubspec"]
    /\ hist' = [hist EXCEPT !.lastWriter = r]
    /\ UNCHANGED <<mem, staticVars>>

\* update_pubspec, lines 184-214: the file is loaded and the two blocks set in memory
LoadForBlocks(r) ==
    /\ rpc[r] = "update_pubspec"
    /\ mem' = [mem EXCEPT ![r] = update_pubspec(pubspec, resolve_main_color(RaceConfig(r)), TRUE)]
    /\ rpc' = [rpc EXCEPT ![r] = "dump_blocks"]
    /\ UNCHANGED <<pubspec, hist, staticVars>>

\* update_pubspec, lines 216-217: the file is rewritten from memory
DumpBlocks(r) ==
    /\ rpc[r] = "dump_blocks"
    /\ pubspec' = dump_pubspec(pubspec, mem[r])
    /\ rpc' = [rpc EXCEPT ![r] = "done"]
    /\ hist' = [hist EXCEPT !.lastWriter = r]
    /\ UNCHANGED <<mem, staticVars>>

NextRace ==
    \E r \in Runs :
        \/ LoadForAssets(r)
        \/ DumpAssets(r)
        \/ LoadForBlocks(r)
        \/ DumpBlocks(r)

SpecRace == InitRace /\ [][NextRace]_vars

AllDone == \A r \in Runs : rpc[r] = "done"
Listed(r) == Range(flavor_assets(r)) \subseteq Range(pubspec.assets)

\* C10: two runs on the same manifest are not coordinated.  Every dump rewrites
\* the whole file from what its run holds in memory: the file is what the last
\* writer held, whatever the other run wrote in between; only runs that do not
\* overlap are sure to leave both flavors' canonical asset paths listed.  (The
\* witness is the lost update: both runs done, one flavor's paths not listed.)
C10_LastWriterWins ==
    /\ (hist.lastWriter # "none" /\ rpc[hist.lastWriter] \in {"update_pubspec", "done"})
           => pubspec = mem[hist.lastWriter]
    /\ (AllDone /\ ~hist.overlapped) => \A r \in Runs : Listed(r)

C10_LostUpdate ==
    /\ AllDone
    /\ hist.overlapped
    /\ hist.pubspec0 = FreshPubspec
    /\ \E r \in Runs : ~Listed(r) /\ Listed(Other(r))

====
